---- MODULE Spec2Model ----
(***************************************************************************)
(* The ASIO host of cpal: src/host/asio/stream.rs.                         *)
(*                                                                         *)
(* An EventLoop owns the registry of logical (cpal) streams, the pair of   *)
(* shared hardware (ASIO) streams, the stream counter and the single user  *)
(* callback.  The driver (asio_sys) owns the sample rate, the started flag,*)
(* the list of installed buffer callbacks and the two silence flags.       *)
(*                                                                         *)
(* Option<T> is a sequence of length at most one: None is <<>> and         *)
(* Some(x) is <<x>>.  Vec indices are the code's: a Vec element i is the   *)
(* (i+1)-th element of the sequence.                                       *)
(* A panic ends the process: no operation runs after it.                   *)
(***************************************************************************)
EXTENDS Integers, Sequences, FiniteSets, TLC

\* ------------------------------------------------------------- bounds
\* Builds that may succeed (caps stream_count).
MaxStreams == 2
\* Half-buffer swaps the driver performs.
MaxSwaps == 3
\* Channels the device advertises in its default format.
MaxChannels == 2
\* Frames of one half-buffer of a hardware stream.
BufferFrames == 1
\* Builds in the runs that include the driver's swaps.
SwapStreams == 2
\* Samples -MaxSample .. MaxSample go through the conversions, beside the
\* ends of the range.
MaxSample == 4

\* ------------------------------------------------------------- Option
None == <<>>
Some(x) == <<x>>
IsSome(o) == o # <<>>

\* ------------------------------------------------------------- samples
I16MAX == 32767
I32MAX == 2147483647

\* Two's complement narrowing of v to 16 bits.
Wrap16(v) == ((v + 32768) % 65536) - 32768

\* A 32-bit value is kept as hi * 65536 + lo; Join32 narrows (hi, lo) to 32
\* bits with every intermediate value inside 32 bits.
Join32(hi, lo) == Wrap16(hi + (lo \div 65536)) * 65536 + (lo % 65536)

\* Truncating division, as Rust's / on integers.
TruncDiv(a, b) == IF a >= 0 THEN a \div b ELSE -((-a) \div b)

\* a + b in the hardware integer type of `bits` bits, wrapping.
WrappingAdd(bits, a, b) ==
    IF bits = 16 THEN Wrap16(a + b)
    ELSE Join32((a \div 65536) + (b \div 65536), (a % 65536) + (b % 65536))

\* TRUE when a + b leaves the range of the integer type of `bits` bits.
AddOverflows(bits, a, b) ==
    IF bits = 16 THEN a + b # Wrap16(a + b)
    ELSE LET hi == (a \div 65536) + (b \div 65536)
                   + (((a % 65536) + (b % 65536)) \div 65536)
         IN hi # Wrap16(hi)

swap_bytes16(x) ==
    LET u == x % 65536
    IN Wrap16((u % 256) * 256 + (u \div 256))

swap_bytes32(x) ==
    LET b0 == x % 256
        b1 == (x \div 256) % 256
        b2 == (x \div 65536) % 256
        b3 == (x \div 16777216) % 256
    IN Join32(b0 * 256 + b1, b2 * 256 + b3)

swap_bytes(bits, x) == IF bits = 16 THEN swap_bytes16(x) ELSE swap_bytes32(x)

\* The host is little-endian (ASIO is a Windows API): to_le / from_le are
\* the identity and to_be / from_be swap the bytes.
convert_endian_to(bits, sample, endian) ==
    IF endian = "Big" THEN swap_bytes(bits, sample) ELSE sample

\* A convert_endian_from that leaves the bytes as they are.
convert_endian_from_unswapped(bits, sample, endian) == sample
convert_endian_from(bits, sample, endian) ==
    IF endian = "Big" THEN swap_bytes(bits, sample) ELSE sample

\* The driver's sample encodings; "Other" stands for every encoding the match
\* on stream_type has no arm for.
AsioSampleTypes ==
    { "ASIOSTInt16LSB", "ASIOSTInt16MSB", "ASIOSTInt32LSB", "ASIOSTInt32MSB",
      "ASIOSTFloat32LSB", "ASIOSTFloat32MSB", "ASIOSTFloat64LSB",
      "ASIOSTFloat64MSB", "Other" }

IsIntType(t) ==
    t \in { "ASIOSTInt16LSB", "ASIOSTInt16MSB", "ASIOSTInt32LSB", "ASIOSTInt32MSB" }
IsFloatType(t) ==
    t \in { "ASIOSTFloat32LSB", "ASIOSTFloat32MSB", "ASIOSTFloat64LSB",
            "ASIOSTFloat64MSB" }
AsioBits(t) == IF t \in { "ASIOSTInt16LSB", "ASIOSTInt16MSB" } THEN 16 ELSE 32
AsioEndian(t) ==
    IF t \in { "ASIOSTInt16MSB", "ASIOSTInt32MSB", "ASIOSTFloat32MSB",
               "ASIOSTFloat64MSB" }
    THEN "Big" ELSE "Little"
\* The logical format whose buffer the arm of the match hands to try_callback.
ArmFormat(t) == IF IsIntType(t) THEN "I16" ELSE "F32"

\* convert_sample! of the output callback, logical -> hardware.
\* i16 -> i16 and i16 -> i32 take the last arm: sample * MAX(asio) / MAX(i16)
\* in 64 bits, narrowed with `as`.  I32MAX = 65538 * I16MAX + 1, so the
\* 64-bit quotient is s * 65538 + trunc(s / I16MAX).
\* Float samples are modelled on the integer-valued floats, where f32 -> f32,
\* f32 -> f64 and float addition are exact.
convert_sample_out(t, s) ==
    IF IsFloatType(t) THEN s
    ELSE IF AsioBits(t) = 16 THEN Wrap16(TruncDiv(s * I16MAX, I16MAX))
    ELSE Join32(s, 2 * s + TruncDiv(s, I16MAX))

\* convert_sample! of the input callback, hardware -> logical.
\* i32 -> i16 is sample * MAX(i16) / MAX(i32) in 64 bits.  With
\* |s| = a * 65538 + b the product is a * I32MAX + (b * I16MAX - a), whose
\* second term lies in (-I32MAX, I32MAX), so the quotient is a or a - 1.
convert_sample_in(t, s) ==
    IF IsFloatType(t) THEN s
    ELSE IF AsioBits(t) = 16 THEN Wrap16(TruncDiv(s * I16MAX, I16MAX))
    ELSE LET neg == s < 0
             \* |s| as a * 65538 + b; -2^31 has magnitude 32767 * 65538 + 2
             a == IF s = -I32MAX - 1 THEN I16MAX
                  ELSE (IF neg THEN -s ELSE s) \div 65538
             b == IF s = -I32MAX - 1 THEN 2
                  ELSE (IF neg THEN -s ELSE s) % 65538
             q == IF b * I16MAX >= a THEN a ELSE a - 1
         IN Wrap16(IF neg THEN -q ELSE q)

\* ------------------------------------------------------------- state
VARIABLES
    asio_streams,    \* EventLoop.asio_streams: [input, output], each an Option
    cpal_streams,    \* EventLoop.cpal_streams: Vec<Option<Stream>>
    stream_count,    \* EventLoop.stream_count
    callbacks,       \* EventLoop.callbacks: Option of the user callback
    stream_type,     \* what drivers.get_data_type() reports
    sample_rate,     \* the driver's current sample rate
    running,         \* the driver is started (sys::play / sys::stop)
    buffer_callback, \* the closures handed to sys::set_callback, in order
    SILENCE_FIRST,   \* sys::SILENCE_FIRST
    SILENCE_SECOND,  \* sys::SILENCE_SECOND
    swap,            \* the driver's half-buffer swap in progress
    panicked,        \* a panic has ended the process
    ret,             \* the last API call and what it returned
    cb_log,          \* user callback invocations of the current swap
    destroyed,       \* identities of streams destroy_stream was called with
    overflow_checks, \* the build panics on integer overflow (debug profile)
    sample,          \* a sample on its way through the conversions
    pc               \* where each thread is inside the call it is executing

vars == << asio_streams, cpal_streams, stream_count, callbacks, stream_type,
           sample_rate, running, buffer_callback, SILENCE_FIRST, SILENCE_SECOND,
           swap, panicked, ret, cb_log, destroyed, overflow_checks, sample, pc >>

eventloop_vars == << asio_streams, cpal_streams, stream_count, callbacks >>
driver_vars == << stream_type, sample_rate, running, buffer_callback,
                  SILENCE_FIRST, SILENCE_SECOND, swap >>

\* ------------------------------------------------------------- the device
\* Rates the application may ask for; the driver supports the first two
\* (can_sample_rate) and starts at the first.
SampleRates == { 44100, 48000, 22050 }
SupportedRates == { 44100, 48000 }
can_sample_rate(rate) == rate \in SupportedRates

SampleFormats == { "I16", "U16", "F32" }
Directions == { "input", "output" }

\* What the application's user callback writes into an output buffer, what
\* the driver leaves in a freshly created hardware buffer, and what it
\* records into an input half-buffer.
Consts == { 1, 2 }
Garbage == { 7 }
RawIn == { 3 }

\* Formats a build may be called with.
Formats ==
    [ channels : 1 .. (MaxChannels + 1), sample_rate : SampleRates,
      data_type : SampleFormats ]

\* A hardware stream as the driver returns it: buffer_infos[i].buffers[index]
\* is the half-buffer `index` of channel i, BufferFrames samples long.
AsioStream(num_channels, fill) ==
    [ buffer_size |-> BufferFrames,
      buffer_infos |->
          [ i \in 0 .. (num_channels - 1) |->
              [ index \in 0 .. 1 |-> [ f \in 1 .. BufferFrames |-> fill ] ] ] ]

NumChannels(stream) == Cardinality(DOMAIN stream.buffer_infos)

\* A sample in a conversion: the encoding t, the value x that went in, what
\* the first conversion made of it (y) and what the second made of that (z).
NoSample == [ op |-> "none", t |-> "Other", x |-> 0, y |-> 0, z |-> 0 ]

\* Two application threads and the driver's callback thread; a thread that is
\* inside no call of the EventLoop is idle.
AppThreads == { "a1", "a2" }
Threads == AppThreads \cup { "driver" }
Idle == [ step |-> "idle" ]

\* ------------------------------------------------------------- Init
\* EventLoop::new: no hardware stream, no logical stream, the counter at 0,
\* no callback.  The driver is loaded and stopped, nothing is installed and
\* both silence flags are false.
InitWith(types, profiles) ==
    /\ asio_streams = [ input |-> None, output |-> None ]
    /\ cpal_streams = << >>
    /\ stream_count = 0
    /\ callbacks = None
    /\ stream_type \in types
    /\ sample_rate = 44100
    /\ running = FALSE
    /\ buffer_callback = << >>
    /\ SILENCE_FIRST = FALSE
    /\ SILENCE_SECOND = FALSE
    /\ swap = [ index |-> 1, pending |-> << >>, n |-> 0 ]
    /\ panicked = FALSE
    /\ ret = [ op |-> "new", id |-> -1, res |-> "Ok" ]
    /\ cb_log = << >>
    /\ destroyed = { }
    /\ overflow_checks \in profiles
    /\ sample = NoSample
    /\ pc = [ t \in Threads |-> Idle ]

Init == InitWith({ "ASIOSTInt16LSB" }, { FALSE })

\* ------------------------------------------------------------- builds
\* check_format: the result and the driver's sample rate afterwards.
\* set_ok: whether the driver accepts set_sample_rate.
check_format(format, num_asio_channels, rate, set_ok) ==
    LET r == IF format.sample_rate # rate
             THEN IF can_sample_rate(format.sample_rate)
                  THEN IF set_ok
                       THEN [ res |-> "Ok", rate |-> format.sample_rate ]
                       ELSE [ res |-> "Panic", rate |-> rate ]
                  ELSE [ res |-> "FormatNotSupported", rate |-> rate ]
             ELSE [ res |-> "Ok", rate |-> rate ]
    IN IF r.res # "Ok" THEN r
       ELSE IF format.data_type = "U16"
            THEN [ res |-> "FormatNotSupported", rate |-> r.rate ]
       ELSE IF format.channels > num_asio_channels
            THEN [ res |-> "FormatNotSupported", rate |-> r.rate ]
       ELSE [ res |-> "Ok", rate |-> r.rate ]

Opposite(dir) == IF dir = "input" THEN "output" ELSE "input"

\* A get_*_stream that asks the driver for a new stream on every build.
get_stream_always_prepares(dir, format, env, streams, rate) ==
    LET chk == IF env.default_ok
               THEN check_format(format, MaxChannels, rate, env.set_ok)
               ELSE [ res |-> "FormatNotSupported", rate |-> rate ]
    IN IF chk.res # "Ok"
       THEN [ res |-> chk.res, rate |-> chk.rate, streams |-> streams,
              buffer_size |-> 0 ]
       ELSE IF env.prepare_ok
       THEN [ res |-> "Ok", rate |-> chk.rate,
              streams |-> [ streams EXCEPT
                              ![dir] = Some(AsioStream(format.channels, env.fill)) ],
              buffer_size |-> BufferFrames ]
       ELSE [ res |-> "DeviceNotAvailable", rate |-> chk.rate,
              streams |-> [ input |-> None, output |-> None ],
              buffer_size |-> 0 ]
\* get_input_stream / get_output_stream: [res, rate, streams, buffer_size].
\* env.default_ok: device.default_*_format() succeeds (with MaxChannels);
\* env.set_ok: set_sample_rate succeeds; env.prepare_ok: prepare_*_stream
\* succeeds; env.fill: what the new hardware buffers hold.
\* The opposite stream is taken out of the pair and handed to the driver,
\* which returns it in the new pair; when the driver fails it is dropped.
get_stream(dir, format, env, streams, rate) ==
    LET chk == IF env.default_ok
               THEN check_format(format, MaxChannels, rate, env.set_ok)
               ELSE [ res |-> "FormatNotSupported", rate |-> rate ]
        other == Opposite(dir)
    IN IF chk.res # "Ok"
       THEN [ res |-> chk.res, rate |-> chk.rate, streams |-> streams,
              buffer_size |-> 0 ]
       ELSE IF IsSome(streams[dir])
       THEN [ res |-> "Ok", rate |-> chk.rate, streams |-> streams,
              buffer_size |-> streams[dir][1].buffer_size ]
       ELSE IF env.prepare_ok
       THEN [ res |-> "Ok", rate |-> chk.rate,
              streams |-> [ streams EXCEPT
                              ![dir] = Some(AsioStream(format.channels, env.fill)) ],
              buffer_size |-> BufferFrames ]
       ELSE [ res |-> "DeviceNotAvailable", rate |-> chk.rate,
              streams |-> [ streams EXCEPT ![dir] = None, ![other] = None ],
              buffer_size |-> 0 ]

get_input_stream(format, env, streams, rate) ==
    get_stream("input", format, env, streams, rate)

get_output_stream(format, env, streams, rate) ==
    get_stream("output", format, env, streams, rate)

\* stream_count.fetch_add(1): the value returned, and the value stored.
fetch_add_old(count) == count

fetch_add_stuck(count) == count
fetch_add_new(count) == count + 1

\* The counter after a build: fetch_add runs inside input_stream.map(..),
\* that is only when get_*_stream returned Ok.
count_after_always(res, count) == fetch_add_new(count)
count_after(res, count) == IF res = "Ok" THEN fetch_add_new(count) ELSE count

\* The stream pushed onto cpal_streams by a build.
NewStream == [ playing |-> FALSE ]

\* The closure a build hands to sys::set_callback: what it captured.
Closure(dir, count, format, stream_buffer_size) ==
    [ dir |-> dir, count |-> count, num_channels |-> format.channels,
      data_type |-> format.data_type,
      cpal_num_samples |-> stream_buffer_size * format.channels ]

Envs ==
    [ default_ok : BOOLEAN, set_ok : BOOLEAN, prepare_ok : BOOLEAN,
      fill : Garbage ]

build_stream(dir, format, env) ==
    LET r == IF dir = "input"
             THEN get_input_stream(format, env, asio_streams, sample_rate)
             ELSE get_output_stream(format, env, asio_streams, sample_rate)
        count == fetch_add_old(stream_count)
        op == IF dir = "input" THEN "build_input_stream" ELSE "build_output_stream"
    IN /\ ~panicked
       /\ stream_count < MaxStreams
       /\ sample_rate' = r.rate
       /\ asio_streams' = r.streams
       /\ stream_count' = count_after(r.res, stream_count)
       /\ IF r.res = "Ok"
          THEN /\ buffer_callback' =
                      Append(buffer_callback,
                             Closure(dir, count, format, r.buffer_size))
               /\ cpal_streams' = Append(cpal_streams, Some(NewStream))
               /\ ret' = [ op |-> op, id |-> count, res |-> "Ok" ]
               /\ panicked' = FALSE
          ELSE /\ UNCHANGED << buffer_callback, cpal_streams >>
               /\ ret' = [ op |-> op, id |-> -1, res |-> r.res ]
               /\ panicked' = (r.res = "Panic")
       /\ UNCHANGED << callbacks, stream_type, running, SILENCE_FIRST,
                       SILENCE_SECOND, swap, cb_log, destroyed,
                       overflow_checks, sample,
                    pc >>

build_input_stream(format, env) == build_stream("input", format, env)
build_output_stream(format, env) == build_stream("output", format, env)

\* ------------------------------------------------------------- registry
\* streams.get_mut(i) / streams.get(i): Some(slot) when i is an index of the Vec.
get(streams, i) == IF i < Len(streams) THEN Some(streams[i + 1]) ELSE None

\* The Vec with the playing flag of slot i set, when the slot holds a stream.
set_playing_all(streams, i, playing) ==
    [ k \in 1 .. Len(streams) |->
        IF IsSome(streams[k]) THEN Some([ streams[k][1] EXCEPT !.playing = playing ])
        ELSE streams[k] ]
set_playing(streams, i, playing) ==
    IF IsSome(streams[i + 1])
    THEN [ streams EXCEPT ![i + 1] = Some([ streams[i + 1][1] EXCEPT !.playing = playing ]) ]
    ELSE streams

\* streams.iter().any(|s| if let Some(s) = s { s.playing } else { false })
any_playing(streams) ==
    \E k \in 1 .. Len(streams) : IsSome(streams[k]) /\ streams[k][1].playing

\* play_stream: expect() panics on an index outside the Vec; otherwise the
\* stream, if the slot holds one, is set playing, and sys::play() is called.
play_stream(stream_id) ==
    /\ ~panicked
    /\ IF get(cpal_streams, stream_id) = None
       THEN /\ panicked' = TRUE
            /\ ret' = [ op |-> "play_stream", id |-> stream_id, res |-> "Panic" ]
            /\ UNCHANGED << cpal_streams, running >>
       ELSE /\ cpal_streams' = set_playing(cpal_streams, stream_id, TRUE)
            /\ running' = TRUE
            /\ ret' = [ op |-> "play_stream", id |-> stream_id, res |-> "Ok" ]
            /\ UNCHANGED panicked
    /\ UNCHANGED << asio_streams, stream_count, callbacks, stream_type,
                    sample_rate, buffer_callback, SILENCE_FIRST, SILENCE_SECOND,
                    swap, cb_log, destroyed, overflow_checks, sample,
                    pc >>

\* pause_stream: as play_stream, with the flag cleared; sys::stop() is called
\* when any_playing is true.
pause_stream(stream_id) ==
    /\ ~panicked
    /\ IF get(cpal_streams, stream_id) = None
       THEN /\ panicked' = TRUE
            /\ ret' = [ op |-> "pause_stream", id |-> stream_id, res |-> "Panic" ]
            /\ UNCHANGED << cpal_streams, running >>
       ELSE /\ cpal_streams' = set_playing(cpal_streams, stream_id, FALSE)
            /\ running' = IF any_playing(cpal_streams') THEN FALSE ELSE running
            /\ ret' = [ op |-> "pause_stream", id |-> stream_id, res |-> "Ok" ]
            /\ UNCHANGED panicked
    /\ UNCHANGED << asio_streams, stream_count, callbacks, stream_type,
                    sample_rate, buffer_callback, SILENCE_FIRST, SILENCE_SECOND,
                    swap, cb_log, destroyed, overflow_checks, sample,
                    pc >>

\* streams.get_mut(stream_id.0).take(): take() is Option::take on the
\* temporary Option<&mut Option<Stream>> that get_mut returned; it empties
\* that temporary and leaves the Vec and its slot as they were.
destroy_take(streams, i) == streams

destroy_stream(stream_id) ==
    /\ ~panicked
    /\ cpal_streams' = destroy_take(cpal_streams, stream_id)
    /\ destroyed' = IF IsSome(get(cpal_streams, stream_id))
                    THEN destroyed \cup { stream_id } ELSE destroyed
    /\ ret' = [ op |-> "destroy_stream", id |-> stream_id, res |-> "Ok" ]
    /\ UNCHANGED << asio_streams, stream_count, callbacks, stream_type,
                    sample_rate, running, buffer_callback, SILENCE_FIRST,
                    SILENCE_SECOND, swap, panicked, cb_log, overflow_checks, sample,
                    pc >>

\* A run that loops forever without storing the callback.
run_stores_nothing ==
    /\ ~panicked
    /\ ret' = [ op |-> "run", id |-> -1, res |-> "Blocked" ]
    /\ UNCHANGED << asio_streams, cpal_streams, stream_count, callbacks,
                    stream_type, sample_rate, running, buffer_callback,
                    SILENCE_FIRST, SILENCE_SECOND, swap, panicked, cb_log,
                    destroyed, overflow_checks, sample,
                    pc >>

\* run: stores the callback and loops forever; other threads keep calling.
run ==
    /\ ~panicked
    /\ callbacks' = Some("callback")
    /\ ret' = [ op |-> "run", id |-> -1, res |-> "Blocked" ]
    /\ UNCHANGED << asio_streams, cpal_streams, stream_count, stream_type,
                    sample_rate, running, buffer_callback, SILENCE_FIRST,
                    SILENCE_SECOND, swap, panicked, cb_log, destroyed,
                    overflow_checks, sample,
                    pc >>

\* Drop for EventLoop: both hardware streams are dropped and sys::clean_up()
\* shuts the driver down.  Nothing is called on the EventLoop afterwards.
drop ==
    /\ ~panicked
    /\ ret.op # "drop"
    /\ asio_streams' = [ input |-> None, output |-> None ]
    /\ running' = FALSE
    /\ ret' = [ op |-> "drop", id |-> -1, res |-> "Ok" ]
    /\ UNCHANGED << cpal_streams, stream_count, callbacks, stream_type,
                    sample_rate, buffer_callback, SILENCE_FIRST, SILENCE_SECOND,
                    swap, panicked, cb_log, destroyed, overflow_checks, sample,
                    pc >>

\* ------------------------------------------------------------- buffers
\* au::interleave: out[f * N + c] = channels[c][f] (0-based), N channels.
interleave(channels, num_channels) ==
    IF num_channels = 0 THEN << >>
    ELSE [ k \in 1 .. (num_channels * Len(channels[0])) |->
             channels[(k - 1) % num_channels][((k - 1) \div num_channels) + 1] ]

\* au::deinterleave: the inverse, channel c of N gets every N-th sample.
deinterleave(buffer, num_channels) ==
    [ c \in 0 .. (num_channels - 1) |->
        [ f \in 1 .. (Len(buffer) \div num_channels) |->
            buffer[(f - 1) * num_channels + c + 1] ] ]

\* The channels of the buffer the match arm hands to try_callback: the
\* closure's buffer of the arm's format has num_channels channels when the
\* stream was built with that format and is the empty default otherwise.
ArmChannels(c, t) == IF c.data_type = ArmFormat(t) THEN c.num_channels ELSE 0
ArmSamples(c, t) == IF c.data_type = ArmFormat(t) THEN c.cpal_num_samples ELSE 0

\* "if not playing return early": the slot exists, holds a stream, and the
\* stream is not playing.
returns_early_never(streams, count) == FALSE
returns_early(streams, count) ==
    /\ IsSome(get(streams, count))
    /\ IsSome(get(streams, count)[1])
    /\ ~get(streams, count)[1][1].playing

\* The silence decision of the output callback for half-buffer `index`:
\* whether this invocation silences, and the two flags afterwards.
silence_flags(index, first, second) ==
    IF index = 0
    THEN IF ~first
         THEN [ silence |-> TRUE, first |-> TRUE, second |-> FALSE ]
         ELSE [ silence |-> FALSE, first |-> first, second |-> second ]
    ELSE IF ~second
         THEN [ silence |-> TRUE, first |-> FALSE, second |-> TRUE ]
         ELSE [ silence |-> FALSE, first |-> first, second |-> second ]

\* What the output loop adds to a hardware sample for logical sample s.
to_hardware(t, s) ==
    IF IsFloatType(t) THEN convert_sample_out(t, s)
    ELSE convert_endian_to(AsioBits(t), convert_sample_out(t, s), AsioEndian(t))

\* What the input loop pushes for hardware sample s: the converted sample,
\* then convert_endian_from on it, in the logical type.
from_hardware(t, s) ==
    IF IsFloatType(t) THEN convert_sample_in(t, s)
    ELSE convert_endian_from(16, convert_sample_in(t, s), AsioEndian(t))

\* if silence { *asio_s = 0 }; *asio_s += converted
accumulate(t, silence, old, s) ==
    LET base == IF silence THEN 0 ELSE old
    IN IF IsFloatType(t) THEN base + to_hardware(t, s)
       ELSE WrappingAdd(AsioBits(t), base, to_hardware(t, s))

accumulate_overflows(t, silence, old, s) ==
    /\ IsIntType(t)
    /\ AddOverflows(AsioBits(t), IF silence THEN 0 ELSE old, to_hardware(t, s))

\* The output loop over the closure's channels and the hardware frames, in
\* the order of the code (channel by channel, frame by frame).  It stops at
\* the first channel the hardware stream does not have (index out of bounds)
\* and, with overflow checks, at the first sample whose += overflows.
\* [stream, panic]
write_output(t, stream, index, channels, num_channels, silence, checks) ==
    LET frames == stream.buffer_size
        hw_channels == NumChannels(stream)
        old(i, f) == stream.buffer_infos[i][index][f]
        touched(i, f) ==
            i < num_channels /\ i < hw_channels /\ f <= Len(channels[i])
        pos(i, f) == i * frames + f
        overflows(i, f) ==
            /\ touched(i, f)
            /\ checks
            /\ accumulate_overflows(t, silence, old(i, f), channels[i][f])
        bad == { p \in 1 .. (hw_channels * frames) :
                   \E i \in 0 .. (hw_channels - 1), f \in 1 .. frames :
                       p = pos(i, f) /\ overflows(i, f) }
        stop == IF bad = { } THEN hw_channels * frames + 1
                ELSE CHOOSE m \in bad : \A k \in bad : m <= k
    IN [ stream |->
           [ stream EXCEPT !.buffer_infos =
               [ i \in DOMAIN stream.buffer_infos |->
                   [ idx \in 0 .. 1 |->
                       [ f \in 1 .. frames |->
                           IF idx = index /\ touched(i, f) /\ pos(i, f) < stop
                           THEN accumulate(t, silence, old(i, f), channels[i][f])
                           ELSE stream.buffer_infos[i][idx][f] ] ] ] ],
         panic |-> (bad # { }) \/ (num_channels > hw_channels) ]

\* The input loop: the per-channel buffers, or a panic at the first channel
\* the hardware stream does not have.  [channels, panic]
read_input(t, stream, index, num_channels) ==
    LET hw_channels == NumChannels(stream)
    IN IF num_channels > hw_channels
       THEN [ channels |-> << >>, panic |-> TRUE ]
       ELSE [ channels |->
                [ i \in 0 .. (num_channels - 1) |->
                    [ f \in 1 .. stream.buffer_size |->
                        from_hardware(t, stream.buffer_infos[i][index][f]) ] ],
              panic |-> FALSE ]

\* ------------------------------------------------------------- conversions
\* The 16-bit logical samples and the hardware samples of `bits` bits the
\* conversions are applied to: the ends of the range, values around zero
\* and values whose bytes all differ.
Samples16 ==
    { -I16MAX - 1, -I16MAX, -16384, -258, 258, 4660, 16384, I16MAX - 1, I16MAX }
        \cup (-MaxSample .. MaxSample)
Samples32 ==
    { -I32MAX - 1, -I32MAX, -65536, 65536, 305419896, I32MAX - 1, I32MAX }
        \cup Samples16
HardwareSamples(bits) == IF bits = 16 THEN Samples16 ELSE Samples32

IntTypes == { t \in AsioSampleTypes : IsIntType(t) }

\* The output loop converts logical sample x for a hardware stream of
\* encoding t (convert_sample! of build_output_stream).
convert_out(t, x) ==
    /\ sample.op = "none"
    /\ sample' = [ op |-> "convert_out", t |-> t, x |-> x,
                   y |-> convert_sample_out(t, x), z |-> 0 ]
    /\ UNCHANGED << asio_streams, cpal_streams, stream_count, callbacks,
                    stream_type, sample_rate, running, buffer_callback,
                    SILENCE_FIRST, SILENCE_SECOND, swap, panicked, ret, cb_log,
                    destroyed, overflow_checks, pc >>

\* The input loop converts that hardware sample back (convert_sample! of
\* build_input_stream).
convert_back ==
    /\ sample.op = "convert_out"
    /\ sample' = [ sample EXCEPT !.op = "convert_back",
                                 !.z = convert_sample_in(sample.t, sample.y) ]
    /\ UNCHANGED << asio_streams, cpal_streams, stream_count, callbacks,
                    stream_type, sample_rate, running, buffer_callback,
                    SILENCE_FIRST, SILENCE_SECOND, swap, panicked, ret, cb_log,
                    destroyed, overflow_checks, pc >>

\* convert_endian_to on hardware sample x of encoding t, then
\* convert_endian_from on the result.
endian_to(t, x) ==
    /\ sample.op = "none"
    /\ sample' = [ op |-> "endian_to", t |-> t, x |-> x,
                   y |-> convert_endian_to(AsioBits(t), x, AsioEndian(t)),
                   z |-> 0 ]
    /\ UNCHANGED << asio_streams, cpal_streams, stream_count, callbacks,
                    stream_type, sample_rate, running, buffer_callback,
                    SILENCE_FIRST, SILENCE_SECOND, swap, panicked, ret, cb_log,
                    destroyed, overflow_checks, pc >>

endian_from ==
    /\ sample.op = "endian_to"
    /\ sample' = [ sample EXCEPT
                     !.op = "endian_from",
                     !.z = convert_endian_from(AsioBits(sample.t), sample.y,
                                               AsioEndian(sample.t)) ]
    /\ UNCHANGED << asio_streams, cpal_streams, stream_count, callbacks,
                    stream_type, sample_rate, running, buffer_callback,
                    SILENCE_FIRST, SILENCE_SECOND, swap, panicked, ret, cb_log,
                    destroyed, overflow_checks, pc >>

\* The input loop pushes what it makes of hardware sample x of encoding t.
read_sample(t, x) ==
    /\ sample.op = "none"
    /\ sample' = [ op |-> "read_sample", t |-> t, x |-> x,
                   y |-> from_hardware(t, x), z |-> 0 ]
    /\ UNCHANGED << asio_streams, cpal_streams, stream_count, callbacks,
                    stream_type, sample_rate, running, buffer_callback,
                    SILENCE_FIRST, SILENCE_SECOND, swap, panicked, ret, cb_log,
                    destroyed, overflow_checks, pc >>

\* ------------------------------------------------------------- callbacks
\* One entry of cb_log: what the invocation of closure c did.
LogEntry(c, outcome, data, silence) ==
    [ id |-> c.count, dir |-> c.dir, outcome |-> outcome, data |-> data,
      silence |-> silence ]

\* A match on stream_type in which every encoding finds an arm.
unsupported_never(t) == FALSE
\* The default arm of the match on stream_type: the encoding has no arm, the
\* closure prints a line and returns.
unsupported(t) == t = "Other"

\* The closure of build_output_stream, invoked with half-buffer `index`; the
\* user callback fills the whole logical buffer with v.
output_callback(c, index, v) ==
    IF returns_early(cpal_streams, c.count)
    THEN /\ cb_log' = Append(cb_log, LogEntry(c, "paused", << >>, FALSE))
         /\ UNCHANGED << asio_streams, SILENCE_FIRST, SILENCE_SECOND, panicked >>
    ELSE IF asio_streams.output = None
    THEN /\ cb_log' = Append(cb_log, LogEntry(c, "no_stream", << >>, FALSE))
         /\ UNCHANGED << asio_streams, SILENCE_FIRST, SILENCE_SECOND, panicked >>
    ELSE IF callbacks = None
    THEN /\ cb_log' = Append(cb_log, LogEntry(c, "no_callback", << >>, FALSE))
         /\ UNCHANGED << asio_streams, SILENCE_FIRST, SILENCE_SECOND, panicked >>
    ELSE IF unsupported(stream_type)
    THEN /\ cb_log' = Append(cb_log, LogEntry(c, "unsupported", << >>, FALSE))
         /\ UNCHANGED << asio_streams, SILENCE_FIRST, SILENCE_SECOND, panicked >>
    ELSE LET n == ArmChannels(c, stream_type)
             buffer == [ k \in 1 .. ArmSamples(c, stream_type) |-> v ]
             channels == deinterleave(buffer, n)
             sil == silence_flags(index, SILENCE_FIRST, SILENCE_SECOND)
             w == write_output(stream_type, asio_streams.output[1], index,
                               channels, n, sil.silence, overflow_checks)
         IN /\ cb_log' = Append(cb_log, LogEntry(c, "called", buffer, sil.silence))
            /\ SILENCE_FIRST' = sil.first
            /\ SILENCE_SECOND' = sil.second
            /\ asio_streams' = [ asio_streams EXCEPT !.output = Some(w.stream) ]
            /\ panicked' = w.panic

\* The closure of build_input_stream.
input_callback(c, index) ==
    IF returns_early(cpal_streams, c.count)
    THEN /\ cb_log' = Append(cb_log, LogEntry(c, "paused", << >>, FALSE))
         /\ UNCHANGED << asio_streams, SILENCE_FIRST, SILENCE_SECOND, panicked >>
    ELSE IF asio_streams.input = None
    THEN /\ cb_log' = Append(cb_log, LogEntry(c, "no_stream", << >>, FALSE))
         /\ UNCHANGED << asio_streams, SILENCE_FIRST, SILENCE_SECOND, panicked >>
    ELSE IF callbacks = None
    THEN /\ cb_log' = Append(cb_log, LogEntry(c, "no_callback", << >>, FALSE))
         /\ UNCHANGED << asio_streams, SILENCE_FIRST, SILENCE_SECOND, panicked >>
    ELSE IF unsupported(stream_type)
    THEN /\ cb_log' = Append(cb_log, LogEntry(c, "unsupported", << >>, FALSE))
         /\ UNCHANGED << asio_streams, SILENCE_FIRST, SILENCE_SECOND, panicked >>
    ELSE LET n == ArmChannels(c, stream_type)
             r == read_input(stream_type, asio_streams.input[1], index, n)
         IN /\ cb_log' =
                  Append(cb_log,
                         IF r.panic THEN LogEntry(c, "panic", << >>, FALSE)
                         ELSE LogEntry(c, "called", interleave(r.channels, n), FALSE))
            /\ panicked' = r.panic
            /\ UNCHANGED << asio_streams, SILENCE_FIRST, SILENCE_SECOND >>

\* The driver has recorded `raw` into half-buffer `index` of every channel.
record_input(stream, index, raw) ==
    [ stream EXCEPT !.buffer_infos =
        [ i \in DOMAIN stream.buffer_infos |->
            [ idx \in 0 .. 1 |->
                IF idx = index
                THEN [ f \in 1 .. stream.buffer_size |-> raw ]
                ELSE stream.buffer_infos[i][idx] ] ] ]

\* The driver starts a half-buffer swap: the index alternates, the input
\* half-buffer holds what was recorded, and every installed closure is due.
buffer_switch(raw) ==
    /\ ~panicked
    /\ running
    /\ swap.pending = << >>
    /\ swap.n < MaxSwaps
    /\ swap' = [ index |-> 1 - swap.index,
                 pending |-> [ k \in 1 .. Len(buffer_callback) |-> k ],
                 n |-> swap.n + 1 ]
    /\ cb_log' = << >>
    /\ asio_streams' =
           IF asio_streams.input = None THEN asio_streams
           ELSE [ asio_streams EXCEPT
                    !.input = Some(record_input(asio_streams.input[1],
                                                1 - swap.index, raw)) ]
    /\ UNCHANGED << cpal_streams, stream_count, callbacks, stream_type,
                    sample_rate, running, buffer_callback, SILENCE_FIRST,
                    SILENCE_SECOND, panicked, ret, destroyed, overflow_checks, sample,
                    pc >>

\* The driver invokes the next closure that is due in this swap.
callback(v) ==
    /\ ~panicked
    /\ swap.pending # << >>
    /\ LET c == buffer_callback[Head(swap.pending)]
       IN IF c.dir = "output"
          THEN output_callback(c, swap.index, v)
          ELSE input_callback(c, swap.index)
    /\ swap' = [ swap EXCEPT !.pending = Tail(swap.pending) ]
    /\ UNCHANGED << cpal_streams, stream_count, callbacks, stream_type,
                    sample_rate, running, buffer_callback, ret, destroyed,
                    overflow_checks, sample,
                    pc >>

\* ------------------------------------------------------------- threads
\* build_input_stream / build_output_stream as the steps a thread takes, each
\* atomic on its own: get_*_stream (under the asio_streams lock), fetch_add,
\* sys::set_callback, and the push (under the cpal_streams lock).

\* Builds that have their hardware stream and have not taken an identity yet.
InFlight == Cardinality({ t \in AppThreads : pc[t].step = "fetch_add" })

build_get_stream(t, dir, format, env) ==
    LET r == IF dir = "input"
             THEN get_input_stream(format, env, asio_streams, sample_rate)
             ELSE get_output_stream(format, env, asio_streams, sample_rate)
        op == IF dir = "input" THEN "build_input_stream" ELSE "build_output_stream"
    IN /\ ~panicked
       /\ pc[t] = Idle
       /\ stream_count + InFlight < MaxStreams
       /\ sample_rate' = r.rate
       /\ asio_streams' = r.streams
       /\ IF r.res = "Ok"
          THEN /\ pc' = [ pc EXCEPT ![t] =
                            [ step |-> "fetch_add", dir |-> dir, format |-> format,
                              buffer_size |-> r.buffer_size, count |-> -1 ] ]
               /\ UNCHANGED << ret, panicked >>
          ELSE /\ ret' = [ op |-> op, id |-> -1, res |-> r.res ]
               /\ panicked' = (r.res = "Panic")
               /\ UNCHANGED pc
       /\ UNCHANGED << cpal_streams, stream_count, callbacks, stream_type,
                       running, buffer_callback, SILENCE_FIRST, SILENCE_SECOND,
                       swap, cb_log, destroyed, overflow_checks, sample >>

\* let count = self.stream_count.fetch_add(1, Ordering::SeqCst);
build_fetch_add(t) ==
    /\ ~panicked
    /\ pc[t].step = "fetch_add"
    /\ stream_count' = fetch_add_new(stream_count)
    /\ pc' = [ pc EXCEPT ![t].step = "set_callback",
                         ![t].count = fetch_add_old(stream_count) ]
    /\ UNCHANGED << asio_streams, cpal_streams, callbacks, stream_type,
                    sample_rate, running, buffer_callback, SILENCE_FIRST,
                    SILENCE_SECOND, swap, panicked, ret, cb_log, destroyed,
                    overflow_checks, sample >>

\* sys::set_callback(closure): from here on the driver invokes the closure.
build_set_callback(t) ==
    /\ ~panicked
    /\ pc[t].step = "set_callback"
    /\ buffer_callback' =
           Append(buffer_callback,
                  Closure(pc[t].dir, pc[t].count, pc[t].format, pc[t].buffer_size))
    /\ pc' = [ pc EXCEPT ![t].step = "push" ]
    /\ UNCHANGED << asio_streams, cpal_streams, stream_count, callbacks,
                    stream_type, sample_rate, running, SILENCE_FIRST,
                    SILENCE_SECOND, swap, panicked, ret, cb_log, destroyed,
                    overflow_checks, sample >>

\* cpal_streams.lock().push(Some(Stream { playing: false })); StreamId(count)
build_push(t) ==
    /\ ~panicked
    /\ pc[t].step = "push"
    /\ cpal_streams' = Append(cpal_streams, Some(NewStream))
    /\ ret' = [ op |-> IF pc[t].dir = "input" THEN "build_input_stream"
                       ELSE "build_output_stream",
                id |-> pc[t].count, res |-> "Ok" ]
    /\ pc' = [ pc EXCEPT ![t] = Idle ]
    /\ UNCHANGED << asio_streams, stream_count, callbacks, stream_type,
                    sample_rate, running, buffer_callback, SILENCE_FIRST,
                    SILENCE_SECOND, swap, panicked, cb_log, destroyed,
                    overflow_checks, sample >>

\* ------------------------------------------------------------- locks
\* The three mutexes of the EventLoop and, for every operation, the lock and
\* unlock events of each of its control paths, in program order.
Locks == { "asio_streams", "cpal_streams", "callbacks" }
Lock(l) == [ ev |-> "lock", l |-> l ]
Unlock(l) == [ ev |-> "unlock", l |-> l ]

\* The closure: the playing check locks cpal_streams inside its own block;
\* then asio_streams is locked, then callbacks, and both guards live to the
\* end of the closure (dropped in reverse order).  The paths are: return at
\* the playing check, return at `None` of the stream, and the rest.
callback_locks ==
    { << Lock("cpal_streams"), Unlock("cpal_streams") >>,
      << Lock("cpal_streams"), Unlock("cpal_streams"),
         Lock("asio_streams"), Unlock("asio_streams") >>,
      << Lock("cpal_streams"), Unlock("cpal_streams"),
         Lock("asio_streams"), Lock("callbacks"),
         Unlock("callbacks"), Unlock("asio_streams") >> }

\* A build: check_format fails before any lock; get_*_stream holds
\* asio_streams until it returns; the push locks cpal_streams.
build_locks ==
    { << >>,
      << Lock("asio_streams"), Unlock("asio_streams") >>,
      << Lock("asio_streams"), Unlock("asio_streams"),
         Lock("cpal_streams"), Unlock("cpal_streams") >> }

play_locks == { << Lock("cpal_streams"), Unlock("cpal_streams") >> }
pause_locks == { << Lock("cpal_streams"), Unlock("cpal_streams") >> }
destroy_locks == { << Lock("cpal_streams"), Unlock("cpal_streams") >> }

\* A run that looks at the hardware streams while it holds the callback slot.
run_locks_nested ==
    { << Lock("callbacks"), Lock("asio_streams"),
         Unlock("asio_streams"), Unlock("callbacks") >> }
\* run: the guard of callbacks is a temporary of the assignment.
run_locks == { << Lock("callbacks"), Unlock("callbacks") >> }

ApiOps ==
    { "build_input_stream", "build_output_stream", "play_stream",
      "pause_stream", "destroy_stream", "run" }

LockPaths(op) ==
    CASE op = "callback" -> callback_locks
      [] op \in { "build_input_stream", "build_output_stream" } -> build_locks
      [] op = "play_stream" -> play_locks
      [] op = "pause_stream" -> pause_locks
      [] op = "destroy_stream" -> destroy_locks
      [] op = "run" -> run_locks

\* The locks thread t holds: locked and not unlocked since.
Held(t) ==
    IF pc[t].step # "locks" THEN { }
    ELSE { l \in Locks :
             \E i \in 1 .. pc[t].at :
                 /\ pc[t].path[i] = Lock(l)
                 /\ \A j \in (i + 1) .. pc[t].at : pc[t].path[j] # Unlock(l) }

\* The event thread t is about to execute, if any.
NextEvent(t) ==
    IF pc[t].step = "locks" /\ pc[t].at < Len(pc[t].path)
    THEN Some(pc[t].path[pc[t].at + 1]) ELSE None

\* Thread t enters operation op and will take control path `path`.
enter(t, op, path) ==
    /\ pc[t] = Idle
    /\ (t = "driver") = (op = "callback")
    /\ path \in LockPaths(op)
    /\ pc' = [ pc EXCEPT ![t] = [ step |-> "locks", op |-> op, path |-> path,
                                  at |-> 0 ] ]
    /\ UNCHANGED << asio_streams, cpal_streams, stream_count, callbacks,
                    stream_type, sample_rate, running, buffer_callback,
                    SILENCE_FIRST, SILENCE_SECOND, swap, panicked, ret, cb_log,
                    destroyed, overflow_checks, sample >>

\* mutex.lock(): blocks while any thread, the caller included, holds it.
lock(t) ==
    /\ NextEvent(t) # None
    /\ NextEvent(t)[1].ev = "lock"
    /\ \A u \in Threads : NextEvent(t)[1].l \notin Held(u)
    /\ pc' = [ pc EXCEPT ![t].at = @ + 1 ]
    /\ UNCHANGED << asio_streams, cpal_streams, stream_count, callbacks,
                    stream_type, sample_rate, running, buffer_callback,
                    SILENCE_FIRST, SILENCE_SECOND, swap, panicked, ret, cb_log,
                    destroyed, overflow_checks, sample >>

\* The guard is dropped.
unlock(t) ==
    /\ NextEvent(t) # None
    /\ NextEvent(t)[1].ev = "unlock"
    /\ pc' = [ pc EXCEPT ![t].at = @ + 1 ]
    /\ UNCHANGED << asio_streams, cpal_streams, stream_count, callbacks,
                    stream_type, sample_rate, running, buffer_callback,
                    SILENCE_FIRST, SILENCE_SECOND, swap, panicked, ret, cb_log,
                    destroyed, overflow_checks, sample >>

\* The operation returns; run never does (loop { thread::sleep }).
leave(t) ==
    /\ pc[t].step = "locks"
    /\ pc[t].at = Len(pc[t].path)
    /\ pc[t].op # "run"
    /\ pc' = [ pc EXCEPT ![t] = Idle ]
    /\ UNCHANGED << asio_streams, cpal_streams, stream_count, callbacks,
                    stream_type, sample_rate, running, buffer_callback,
                    SILENCE_FIRST, SILENCE_SECOND, swap, panicked, ret, cb_log,
                    destroyed, overflow_checks, sample >>

\* ------------------------------------------------------------- specification
StreamIds == 0 .. MaxStreams

\* The application's calls alone: builds with every outcome of the format
\* check and of the driver, play, pause, destroy and run.
ApiFormats ==
    [ channels : { MaxChannels, MaxChannels + 1 }, sample_rate : SampleRates,
      data_type : { "I16", "U16" } ]
\* The driver answers every query of a build, or fails exactly one of them
\* (a build ends at the first failure, so these are all its outcomes).
ApiEnvs ==
    { e \in [ default_ok : BOOLEAN, set_ok : BOOLEAN, prepare_ok : BOOLEAN,
              fill : Garbage ] :
        Cardinality({ f \in { "default_ok", "set_ok", "prepare_ok" } : ~e[f] }) <= 1 }

Next ==
    \/ \E format \in ApiFormats, env \in ApiEnvs : build_input_stream(format, env)
    \/ \E format \in ApiFormats, env \in ApiEnvs : build_output_stream(format, env)
    \/ \E id \in StreamIds : play_stream(id)
    \/ \E id \in StreamIds : pause_stream(id)
    \/ \E id \in StreamIds : destroy_stream(id)
    \/ run

Spec == Init /\ [][Next]_vars

\* The driver's callback thread beside the application: builds that succeed,
\* play, pause, run, and the half-buffer swaps.
SwapFormats ==
    [ channels : { MaxChannels }, sample_rate : { 44100 }, data_type : { "I16" } ]
SwapEnvs ==
    [ default_ok : { TRUE }, set_ok : { TRUE }, prepare_ok : { TRUE },
      fill : Garbage ]

\* What the user callback writes in these runs.
SwapConsts == { 1 }

InitSwap == InitWith({ "ASIOSTInt16LSB" }, { FALSE })

NextSwap ==
    \/ \E format \in SwapFormats, env \in SwapEnvs :
          stream_count < SwapStreams /\ build_input_stream(format, env)
    \/ \E format \in SwapFormats, env \in SwapEnvs :
          stream_count < SwapStreams /\ build_output_stream(format, env)
    \/ \E id \in 0 .. (SwapStreams - 1) : play_stream(id)
    \/ \E id \in 0 .. (SwapStreams - 1) : pause_stream(id)
    \/ run
    \/ \E raw \in RawIn : buffer_switch(raw)
    \/ \E v \in SwapConsts : callback(v)

SpecSwap == InitSwap /\ [][NextSwap]_vars

\* Output streams mixed into one hardware stream: builds of output streams
\* that succeed, play, pause, run and the swaps, for an integer encoding of
\* each width and byte order and a float encoding.
MixFormats ==
    [ channels : { MaxChannels }, sample_rate : { 44100 },
      data_type : { "I16", "F32" } ]

InitMix ==
    InitWith({ "ASIOSTInt16LSB", "ASIOSTInt32MSB", "ASIOSTFloat32LSB" }, { FALSE })

NextMix ==
    \/ \E format \in MixFormats, env \in SwapEnvs :
          stream_count < SwapStreams /\ build_output_stream(format, env)
    \/ \E id \in 0 .. (SwapStreams - 1) : play_stream(id)
    \/ \E id \in 0 .. (SwapStreams - 1) : pause_stream(id)
    \/ run
    \/ \E raw \in RawIn : buffer_switch(raw)
    \/ \E v \in Consts : callback(v)

SpecMix == InitMix /\ [][NextMix]_vars

\* Streams of different channel counts on the shared hardware streams:
\* builds that succeed with every channel count the device accepts, play,
\* pause, run and the swaps.
ShapeFormats ==
    [ channels : 1 .. MaxChannels, sample_rate : { 44100 }, data_type : { "I16" } ]

InitShape == InitWith({ "ASIOSTInt16LSB" }, { FALSE })

NextShape ==
    \/ \E format \in ShapeFormats, env \in SwapEnvs :
          stream_count < SwapStreams /\ build_input_stream(format, env)
    \/ \E format \in ShapeFormats, env \in SwapEnvs :
          stream_count < SwapStreams /\ build_output_stream(format, env)
    \/ \E id \in 0 .. (SwapStreams - 1) : play_stream(id)
    \/ \E id \in 0 .. (SwapStreams - 1) : pause_stream(id)
    \/ run
    \/ \E raw \in RawIn : buffer_switch(raw)
    \/ \E v \in Consts : callback(v)

SpecShape == InitShape /\ [][NextShape]_vars


\* The life of an EventLoop: the application's calls, and its drop, after
\* which nothing is called.
NextLife ==
    \/ \E format \in ApiFormats, env \in ApiEnvs :
          ret.op # "drop" /\ build_input_stream(format, env)
    \/ \E format \in ApiFormats, env \in ApiEnvs :
          ret.op # "drop" /\ build_output_stream(format, env)
    \/ \E id \in StreamIds : ret.op # "drop" /\ play_stream(id)
    \/ \E id \in StreamIds : ret.op # "drop" /\ pause_stream(id)
    \/ \E id \in StreamIds : ret.op # "drop" /\ destroy_stream(id)
    \/ ret.op # "drop" /\ run
    \/ drop

SpecLife == Init /\ [][NextLife]_vars

\* The conversions on their own, applied to one sample.
NextConv ==
    \/ \E t \in IntTypes, x \in Samples16 : convert_out(t, x)
    \/ convert_back
    \/ \E t \in IntTypes : \E x \in HardwareSamples(AsioBits(t)) : endian_to(t, x)
    \/ endian_from
    \/ \E t \in IntTypes : \E x \in HardwareSamples(AsioBits(t)) : read_sample(t, x)

SpecConv == Init /\ [][NextConv]_vars

\* Streams destroyed while the driver keeps swapping: builds that succeed,
\* play, pause, destroy, run and the swaps.
NextDestroy ==
    \/ \E format \in SwapFormats, env \in SwapEnvs :
          stream_count < SwapStreams /\ build_input_stream(format, env)
    \/ \E format \in SwapFormats, env \in SwapEnvs :
          stream_count < SwapStreams /\ build_output_stream(format, env)
    \/ \E id \in 0 .. (SwapStreams - 1) : play_stream(id)
    \/ \E id \in 0 .. (SwapStreams - 1) : pause_stream(id)
    \/ \E id \in 0 .. (SwapStreams - 1) : destroy_stream(id)
    \/ run
    \/ \E raw \in RawIn : buffer_switch(raw)
    \/ \E v \in SwapConsts : callback(v)

SpecDestroy == InitSwap /\ [][NextDestroy]_vars

\* ------------------------------------------------------------- properties
BuildOps == { "build_input_stream", "build_output_stream" }
BuildOk == ret.op \in BuildOps /\ ret.res = "Ok"
BuildOpOf(dir) == IF dir = "input" THEN "build_input_stream" ELSE "build_output_stream"

\* The identities handed out so far, in the order of the builds: every
\* successful build installs one closure, which holds the identity returned.
Assigned == [ k \in 1 .. Len(buffer_callback) |-> buffer_callback[k].count ]

\* The stream in slot i is there and playing / there and paused.
Playing(streams, i) ==
    IsSome(get(streams, i)) /\ IsSome(get(streams, i)[1])
        /\ get(streams, i)[1][1].playing
Paused(streams, i) ==
    IsSome(get(streams, i)) /\ IsSome(get(streams, i)[1])
        /\ ~get(streams, i)[1][1].playing

\* C1: the identities returned by successful builds are strictly increasing
\* in the order they are assigned, so none is returned twice, also after a
\* stream was destroyed; the identity a build returns is the newest one.
C1_IdsStrictlyIncreasing ==
    /\ \A j, k \in 1 .. Len(Assigned) : j < k => Assigned[j] < Assigned[k]
    /\ BuildOk => ret.id = Assigned[Len(Assigned)]

\* A build that returned after an earlier stream had been destroyed: its
\* identity is above every earlier one, the destroyed one included.
C1_Witness ==
    /\ BuildOk
    /\ \E k \in 1 .. (Len(Assigned) - 1) : Assigned[k] \in destroyed
    /\ \A k \in 1 .. (Len(Assigned) - 1) : ret.id > Assigned[k]

\* C2: the first successful build on a fresh EventLoop returns identity 1,
\* and every later one the previous maximum plus one: the k-th successful
\* build returns k.
C2_IdsCountFromOne == BuildOk => ret.id = Len(Assigned)

\* The stream a successful build has just returned is paused.
C3_BuiltPaused == BuildOk => Paused(cpal_streams, ret.id)

\* A playing flag changes only in a play_stream / pause_stream call with the
\* stream's identity, and such a call leaves the flag as the call says.
C3_FlagStep ==
    \A i \in 0 .. (Len(cpal_streams) - 1) :
        /\ (Playing(cpal_streams, i) # Playing(cpal_streams', i)) =>
              /\ ret'.id = i
              /\ \/ ret'.op = "play_stream" /\ Playing(cpal_streams', i)
                 \/ ret'.op = "pause_stream" /\ Paused(cpal_streams', i)
        /\ (ret' # ret /\ ret'.res = "Ok" /\ ret'.id = i) =>
              /\ ret'.op = "play_stream" => Playing(cpal_streams', i)
              /\ ret'.op = "pause_stream" => Paused(cpal_streams', i)

\* C3: a stream is Paused when its build returns; its playing flag changes
\* only in a play_stream or pause_stream call with its identity, which makes
\* it Playing resp. Paused and leaves every other stream's flag as it was.
C3_PlayPauseExact == [] C3_BuiltPaused /\ [][C3_FlagStep]_vars

\* play_stream(0) has returned: stream 0 plays and stream 1 is still paused.
C3_Witness ==
    /\ ret = [ op |-> "play_stream", id |-> 0, res |-> "Ok" ]
    /\ Playing(cpal_streams, 0)
    /\ Paused(cpal_streams, 1)

\* The step invokes the closure that is next due in the swap.
CallbackStep == swap.pending # << >> /\ swap' # swap
DueClosure == buffer_callback[Head(swap.pending)]

\* The closure due belongs to a paused stream: the step only logs the early
\* return.
C4_PausedStep ==
    (CallbackStep /\ Paused(cpal_streams, DueClosure.count)) =>
        /\ UNCHANGED << asio_streams, SILENCE_FIRST, SILENCE_SECOND >>
        /\ Len(cb_log') = Len(cb_log) + 1
        /\ cb_log'[Len(cb_log')].id = DueClosure.count
        /\ cb_log'[Len(cb_log')].outcome = "paused"

\* C4: an invocation of a stream's closure that starts while the stream is
\* Paused does nothing: the user callback is not invoked, the hardware
\* streams and their buffers are as before, and so are the silence flags.
C4_PausedCallbackIdle == [][C4_PausedStep]_vars

\* In one swap the user callback ran for a playing stream and, later, the
\* closure of a paused stream was invoked and returned early, the callback
\* being registered and the hardware stream there.
C4_Witness ==
    \E j, k \in 1 .. Len(cb_log) :
        /\ j < k
        /\ cb_log[j].outcome = "called"
        /\ cb_log[k].outcome = "paused"
        /\ IsSome(asio_streams[cb_log[k].dir])

\* The step is a call of `op` that returned.
CallStep(op) == ret' # ret /\ ret'.op = op

\* destroy_stream of an existing stream empties its slot and no other.
C5_DestroyStep ==
    (CallStep("destroy_stream")
        /\ (Paused(cpal_streams, ret'.id) \/ Playing(cpal_streams, ret'.id))) =>
        /\ Len(cpal_streams') = Len(cpal_streams)
        /\ \A i \in 0 .. (Len(cpal_streams) - 1) :
              IF i = ret'.id THEN get(cpal_streams', i) = Some(None)
              ELSE get(cpal_streams', i) = get(cpal_streams, i)

\* C5: after destroy_stream(id) of an existing stream the slot id is empty,
\* and the number of slots and every other slot are as before.
C5_DestroyEmptiesSlot == [][C5_DestroyStep]_vars

\* play_stream / pause_stream of an identity without a stream is refused.
C6_InvalidIdStep ==
    ((CallStep("play_stream") \/ CallStep("pause_stream"))
        /\ (get(cpal_streams, ret'.id) = None \/ ret'.id \in destroyed)) =>
        /\ ret'.res = "InvalidStreamId"
        /\ UNCHANGED << cpal_streams, running >>

\* C6: play_stream / pause_stream with an identity never created or whose
\* stream was destroyed returns InvalidStreamId, changes no playing flag
\* and neither starts nor stops the driver.
C6_InvalidIdRejected == [][C6_InvalidIdStep]_vars

\* The step is a build called with `format` while the driver behaves as `env`.
BuildStep(format, env) ==
    build_input_stream(format, env) \/ build_output_stream(format, env)

\* A build with too many channels, the driver accepting every
\* set_sample_rate: refused, and nothing changes.
C7_TooManyChannelsStep ==
    (\E format \in ApiFormats, env \in ApiEnvs :
        format.channels > MaxChannels /\ env.set_ok /\ BuildStep(format, env)) =>
        /\ ret'.res = "FormatNotSupported"
        /\ UNCHANGED << asio_streams, cpal_streams, stream_count,
                        buffer_callback, sample_rate >>

\* C7: a build asking for more channels than the device has returns
\* FormatNotSupported and changes nothing: no hardware stream, no logical
\* stream, no identity consumed, and the driver's sample rate as before.
C7_TooManyChannelsNoMutation == [][C7_TooManyChannelsStep]_vars

\* A build whose rate the driver does not support, and one whose rate the
\* driver supports and then rejects: both return an error value.
C8_RateStep ==
    /\ (\E format \in ApiFormats, env \in ApiEnvs :
          /\ format.sample_rate # sample_rate
          /\ ~can_sample_rate(format.sample_rate)
          /\ BuildStep(format, env)) =>
          /\ ret'.res = "FormatNotSupported"
          /\ UNCHANGED << asio_streams, cpal_streams, buffer_callback >>
    /\ (\E format \in ApiFormats, env \in ApiEnvs :
          /\ format.sample_rate # sample_rate
          /\ can_sample_rate(format.sample_rate)
          /\ ~env.set_ok
          /\ BuildStep(format, env)) =>
          /\ ret'.res \in { "FormatNotSupported", "DeviceNotAvailable" }
          /\ UNCHANGED << asio_streams, cpal_streams, buffer_callback >>

\* C8: a build whose sample rate cannot be satisfied (the driver does not
\* support it, or supports it and rejects set_sample_rate) returns a
\* BuildStreamError, FormatNotSupported in the first case, and creates no
\* hardware stream and registers no logical stream.
C8_RateFailureIsError == [][C8_RateStep]_vars

\* A build that passed the format check, found no hardware stream of its
\* direction and had prepare_*_stream fail.
C9_PrepareFailsStep ==
    \A dir \in Directions :
        ( /\ ret'.op \in BuildOps
          /\ asio_streams[dir] = None
          /\ \E format \in ApiFormats, env \in ApiEnvs :
                /\ ~env.prepare_ok
                /\ env.default_ok
                /\ check_format(format, MaxChannels, sample_rate, env.set_ok).res = "Ok"
                /\ build_stream(dir, format, env) ) =>
            /\ ret'.res = "DeviceNotAvailable"
            /\ UNCHANGED << cpal_streams, stream_count, buffer_callback >>

\* As many registry slots, and as many closures, as identities assigned.
C9_SlotsMatchIds ==
    /\ Len(cpal_streams) = stream_count
    /\ Len(buffer_callback) = stream_count

\* C9: a build that reaches prepare_*_stream (the format check passed, no
\* hardware stream of the direction exists) and finds it failing returns
\* DeviceNotAvailable, registers no stream, consumes no identity and
\* installs no closure; the registry has as many slots as identities were
\* assigned.
C9_PrepareFailureRegistersNothing ==
    [] C9_SlotsMatchIds /\ [][C9_PrepareFailsStep]_vars

\* A build has failed with DeviceNotAvailable after an earlier one succeeded.
C9_Witness ==
    /\ ret.op \in BuildOps
    /\ ret.res = "DeviceNotAvailable"
    /\ stream_count = 1
    /\ Len(cpal_streams) = 1

\* a + b in the hardware sample type of encoding t.
HardwareSum(t, a, b) ==
    IF IsFloatType(t) THEN a + b ELSE WrappingAdd(AsioBits(t), a, b)

\* C10: when a swap has processed two Playing output streams whose user
\* callbacks filled their buffers with c1 and c2, every sample of the
\* swap's half-buffer is convert(c1) + convert(c2), whatever the buffer
\* held before.
C10_MixIsSumOfBoth ==
    ( /\ swap.n >= 1
      /\ swap.pending = << >>
      /\ ~panicked
      /\ Len(cb_log) = 2
      /\ \A k \in 1 .. 2 :
            /\ cb_log[k].outcome = "called"
            /\ cb_log[k].dir = "output"
            /\ cb_log[k].data # << >> ) =>
        \A i \in DOMAIN asio_streams.output[1].buffer_infos :
            \A f \in 1 .. asio_streams.output[1].buffer_size :
                asio_streams.output[1].buffer_infos[i][swap.index][f] =
                    HardwareSum(stream_type,
                                to_hardware(stream_type, cb_log[1].data[1]),
                                to_hardware(stream_type, cb_log[2].data[1]))

\* The invocations of this swap in which an output stream's user callback ran
\* and the stream accumulated into the half-buffer.
OutputCalls ==
    { k \in 1 .. Len(cb_log) :
        cb_log[k].dir = "output" /\ cb_log[k].outcome = "called" }

\* C11: in every swap in which an output stream accumulates into the active
\* half-buffer, the half-buffer is zeroed exactly once, by the first stream
\* that accumulates: the first accumulating invocation silences and no
\* later one does.
C11_SilencedOncePerSwap ==
    \A k \in OutputCalls :
        cb_log[k].silence = (\A j \in OutputCalls : k <= j)

\* A build of direction dir that finds the hardware stream of dir existing:
\* the pair stays as it is, whatever prepare_*_stream would answer, and when
\* the format check passes the build succeeds with that stream's buffer size.
C12_ExistingStreamStep ==
    \A dir \in Directions :
        ( /\ ret'.op = BuildOpOf(dir)
          /\ IsSome(asio_streams[dir]) ) =>
            \A format \in ApiFormats, env \in ApiEnvs :
                build_stream(dir, format, env) =>
                    /\ asio_streams' = asio_streams
                    /\ ( /\ env.default_ok
                         /\ check_format(format, MaxChannels, sample_rate,
                                         env.set_ok).res = "Ok" ) =>
                           /\ ret'.res = "Ok"
                           /\ buffer_callback'[Len(buffer_callback')].cpal_num_samples =
                                  asio_streams[dir][1].buffer_size * format.channels

\* C12: at most one hardware stream exists per direction: a build for a
\* direction whose hardware stream exists does not call prepare_*_stream, it
\* returns that stream's buffer size and leaves the pair unchanged.
C12_OneHardwareStreamPerDirection == [][C12_ExistingStreamStep]_vars

\* A second stream was built on the hardware stream of the first.
C12_Witness ==
    /\ BuildOk
    /\ ret.id = 1
    /\ buffer_callback[1].dir = buffer_callback[2].dir
    /\ IsSome(asio_streams[buffer_callback[1].dir])

\* C13: the stream a successful build has just returned has at most as many
\* channels as the hardware stream of its direction has when the build
\* returns, also when that hardware stream was created by an earlier build
\* with fewer channels than the device maximum.
C13_ChannelsWithinHardware ==
    BuildOk =>
        LET c == buffer_callback[Len(buffer_callback)]
        IN c.num_channels <= NumChannels(asio_streams[c.dir][1])

\* destroy_stream was called with the last stream that had not been
\* destroyed: every slot's identity is now a destroyed one.
LastStreamDestroyed ==
    /\ CallStep("destroy_stream")
    /\ ret'.id \notin destroyed
    /\ Len(cpal_streams) > 0
    /\ \A i \in 0 .. (Len(cpal_streams) - 1) : i \in destroyed'

\* C14: when destroy_stream has removed the last logical stream, the shared
\* hardware streams are torn down: both slots of the pair are empty.
C14_TeardownAfterLastDestroy ==
    [][LastStreamDestroyed => asio_streams' = [ input |-> None, output |-> None ]]_vars

Abs(v) == IF v < 0 THEN -v ELSE v

\* C15: a 16-bit logical sample converted to an integer hardware sample by
\* the output formula and back by the input formula is within 1 of what it
\* was, and is what it was when the hardware sample has 16 bits.
C15_IntRoundTripWithinOne ==
    sample.op = "convert_back" =>
        IF AsioBits(sample.t) = 16 THEN sample.z = sample.x
        ELSE Abs(sample.z - sample.x) <= 1

\* C16: for both byte orders and both integer widths, convert_endian_from
\* applied to what convert_endian_to made of a sample gives the sample back.
C16_EndianRoundTrip ==
    sample.op = "endian_from" => sample.z = sample.x

\* A 32-bit big-endian sample went through both conversions, and the first
\* one changed it.
C16_Witness ==
    /\ sample.op = "endian_from"
    /\ AsioBits(sample.t) = 32
    /\ AsioEndian(sample.t) = "Big"
    /\ sample.y # sample.x
    /\ sample.x = -I32MAX - 1

\* run has not returned: the call is blocked, and the callback is stored.
C17_RunBlocked ==
    ret.op = "run" => (ret.res = "Blocked" /\ callbacks # None)

\* The stored callback stays, and a closure invoked while none is stored
\* does not invoke the user callback.
C17_CallbackStep ==
    /\ callbacks # None => callbacks' # None
    /\ (CallbackStep /\ callbacks = None) =>
          /\ Len(cb_log') = Len(cb_log) + 1
          /\ cb_log'[Len(cb_log')].outcome \notin { "called", "panic" }

\* C17: run stores the callback and never returns to its caller; the slot is
\* never reset to empty; no user callback is invoked before run stored it.
C17_RunStoresCallbackForever ==
    [] C17_RunBlocked /\ [][C17_CallbackStep]_vars

\* In one swap a playing stream's closure found no callback stored, run
\* stored it, and the next playing stream's closure invoked it.
C17_Witness ==
    /\ Len(cb_log) = 2
    /\ cb_log[1].outcome = "no_callback"
    /\ cb_log[2].outcome = "called"
    /\ callbacks # None

\* A pause_stream that returned while the driver was started: the driver is
\* stopped exactly when no stream is playing afterwards.
C18_PauseStep ==
    (CallStep("pause_stream") /\ ret'.res = "Ok" /\ running) =>
        (~running' <=> ~any_playing(cpal_streams'))

\* C18: pause_stream stops the hardware driver if and only if no logical
\* stream is Playing after the pause; the driver is never stopped while
\* some stream is still Playing.
C18_PauseStopsIffNonePlaying == [][C18_PauseStep]_vars

\* The closure due belongs to a stream that was destroyed, or whose slot is
\* empty or not there: the step invokes no user callback and writes nothing.
C19_DestroyedStep ==
    ( /\ CallbackStep
      /\ \/ DueClosure.count \in destroyed
         \/ get(cpal_streams, DueClosure.count) = None
         \/ get(cpal_streams, DueClosure.count) = Some(None) ) =>
        /\ UNCHANGED << asio_streams, SILENCE_FIRST, SILENCE_SECOND >>
        /\ Len(cb_log') = Len(cb_log) + 1
        /\ cb_log'[Len(cb_log')].id = DueClosure.count
        /\ cb_log'[Len(cb_log')].outcome \notin { "called", "panic" }

\* C19: a closure invoked for a stream whose slot is empty (destroyed) or
\* does not exist behaves as for a Paused stream: the user callback is not
\* invoked, no hardware buffer is written and no silence flag changes.
C19_DestroyedSlotIsIdle == [][C19_DestroyedStep]_vars

\* A build of one direction leaves a hardware stream in the opposite
\* direction when there was one.
C20_OppositeStep ==
    \A dir \in Directions :
        ( /\ ret'.op = BuildOpOf(dir)
          /\ IsSome(asio_streams[Opposite(dir)])
          /\ \E format \in ApiFormats, env \in ApiEnvs :
                build_stream(dir, format, env) ) =>
            IsSome(asio_streams'[Opposite(dir)])

\* C20: creating the hardware stream of one direction preserves the
\* hardware stream of the opposite direction, when the driver creates the
\* stream and when it fails with DeviceNotAvailable.
C20_OppositeStreamPreserved == [][C20_OppositeStep]_vars

\* Some stream of direction dir is playing.
PlayingIn(dir) ==
    \E k \in 1 .. Len(buffer_callback) :
        buffer_callback[k].dir = dir /\ Playing(cpal_streams, buffer_callback[k].count)

\* The shape of the hardware stream in `streams` of direction dir: whether
\* it is there, its channel count and its buffer size.
HardwareShape(streams, dir) ==
    IF streams[dir] = None THEN None
    ELSE Some([ channels |-> NumChannels(streams[dir][1]),
                buffer_size |-> streams[dir][1].buffer_size ])

\* While a stream of a direction plays, a step leaves the hardware stream
\* of that direction, the encoding and the sample rate as they are.
C21_ShapeStep ==
    \A dir \in Directions :
        PlayingIn(dir) =>
            /\ HardwareShape(asio_streams', dir) = HardwareShape(asio_streams, dir)
            /\ stream_type' = stream_type
            /\ sample_rate' = sample_rate

\* C21: while at least one logical stream of a direction is Playing, no
\* operation changes the hardware stream of that direction: its channel
\* count, buffer size, encoding, sample rate or the stream itself.
C21_ShapeImmutableWhilePlaying == [][C21_ShapeStep]_vars

\* ------------------------------------------------------------------- C22
\* The swaps of a driver whose encoding may be one the closures have no arm
\* for, and whose buffers may fail to be prepared, so that closures outlive
\* the hardware stream they look up.
SkipEnvs ==
    [ default_ok : { TRUE }, set_ok : { TRUE }, prepare_ok : BOOLEAN,
      fill : Garbage ]

InitSkip == InitWith({ "ASIOSTInt16LSB", "Other" }, { FALSE })

NextSkip ==
    \/ \E format \in SwapFormats, env \in SkipEnvs :
          stream_count < SwapStreams /\ build_input_stream(format, env)
    \/ \E format \in SwapFormats, env \in SkipEnvs :
          stream_count < SwapStreams /\ build_output_stream(format, env)
    \/ \E id \in 0 .. (SwapStreams - 1) : play_stream(id)
    \/ run
    \/ \E raw \in RawIn : buffer_switch(raw)
    \/ \E v \in SwapConsts : callback(v)

SpecSkip == InitSkip /\ [][NextSkip]_vars

\* The closure that is due finds nothing to work with: no hardware stream of
\* its direction, no stored user callback, or an encoding without an arm.
NothingToDo ==
    \/ asio_streams[DueClosure.dir] = None
    \/ callbacks = None
    \/ stream_type = "Other"

C22_SkipStep ==
    (CallbackStep /\ NothingToDo) =>
        /\ cb_log'[Len(cb_log')].outcome \notin { "called", "panic" }
        /\ asio_streams' = asio_streams
        /\ SILENCE_FIRST' = SILENCE_FIRST
        /\ SILENCE_SECOND' = SILENCE_SECOND
        /\ cpal_streams' = cpal_streams
        /\ panicked' = panicked

\* C22: an invocation of a stream's closure that finds no hardware stream of
\* its direction, no stored user callback, or an encoding outside the eight
\* the closure has an arm for does nothing: the user callback is not called,
\* no hardware buffer and no silence flag changes, and no stream changes
\* between Playing and Paused.
C22_SkippedCallbackIsNoOp == [][C22_SkipStep]_vars

\* In one swap a playing output stream found its hardware stream gone and a
\* playing input stream found an encoding without an arm.
C22_Witness ==
    /\ Len(cb_log) = 2
    /\ cb_log[1].outcome = "no_stream"
    /\ cb_log[2].outcome = "unsupported"
    /\ \A k \in 1 .. 2 : Playing(cpal_streams, cb_log[k].id)

\* ------------------------------------------------------------------- C23
\* C23: on the input path a hardware sample is brought from the hardware
\* byte order to native order first and converted to the logical format
\* after that: for a 32-bit integer encoding of either byte order the sample
\* pushed for the user callback is convert(from_hardware_endian(raw)).
C23_EndianBeforeConversion ==
    (sample.op = "read_sample" /\ AsioBits(sample.t) = 32) =>
        sample.y = convert_sample_in(sample.t,
                       convert_endian_from(32, sample.x, AsioEndian(sample.t)))

\* ------------------------------------------------------------------- C24
\* The 64-bit value sample * MAX(i32) / MAX(i16) of the output formula before
\* `as` narrows it, kept as hi * 65536 + lo.
quotient_out(s) == [ hi |-> s, lo |-> 2 * s + TruncDiv(s, I16MAX) ]

\* The 64-bit value sample * MAX(i16) / MAX(i32) of the input formula before
\* `as` narrows it (see convert_sample_in for a and b).
quotient_in(s) ==
    LET neg == s < 0
        a == IF s = -I32MAX - 1 THEN I16MAX
             ELSE (IF neg THEN -s ELSE s) \div 65538
        b == IF s = -I32MAX - 1 THEN 2
             ELSE (IF neg THEN -s ELSE s) % 65538
        q == IF b * I16MAX >= a THEN a ELSE a - 1
    IN IF neg THEN -q ELSE q

Fits16(v) == -I16MAX - 1 <= v /\ v <= I16MAX
Fits32(q) == Fits16(q.hi + (q.lo \div 65536))

\* C24: the integer conversions never overflow.  For every 16-bit logical
\* sample, sample * max(int32) / max(int16) computed in 64 bits lies in the
\* 32-bit range, so the narrowed hardware sample has the sample's value and
\* sign; for every 32-bit hardware sample, sample * max(int16) / max(int32)
\* lies in the 16-bit range.
C24_IntConversionFits ==
    /\ (sample.op = "convert_out" /\ AsioBits(sample.t) = 32) =>
           /\ Fits32(quotient_out(sample.x))
           /\ (sample.y < 0) = (sample.x < 0)
    /\ (sample.op = "read_sample" /\ AsioBits(sample.t) = 32) =>
           Fits16(quotient_in(sample.x))

\* ------------------------------------------------------------ C25, C26
\* Two application threads building streams step by step beside play, run
\* and the driver's swaps.
NextThreads ==
    \/ \E t \in AppThreads, dir \in Directions, format \in SwapFormats,
          env \in SwapEnvs :
          stream_count + InFlight < SwapStreams /\ build_get_stream(t, dir, format, env)
    \/ \E t \in AppThreads : build_fetch_add(t)
    \/ \E t \in AppThreads : build_set_callback(t)
    \/ \E t \in AppThreads : build_push(t)
    \/ \E id \in 0 .. (SwapStreams - 1) : play_stream(id)
    \/ run
    \/ \E raw \in RawIn : buffer_switch(raw)
    \/ \E v \in SwapConsts : callback(v)

SpecThreads == InitSwap /\ [][NextThreads]_vars

\* Thread t appends its stream's slot and returns its identity.
PushStep(t) == pc[t].step = "push" /\ pc'[t] = Idle

C25_PushStep ==
    \A t \in AppThreads :
        PushStep(t) =>
            /\ Len(cpal_streams') = pc[t].count + 1
            /\ ret'.id = pc[t].count

\* C25: also when two threads build streams concurrently, the registry slot
\* at index id belongs to the stream whose build returned StreamId id: the
\* build that returns id appends the slot at index id (taking the identity
\* from the counter and appending the slot behave as one atomic step).
C25_SlotBelongsToItsStream == [][C25_PushStep]_vars

C26_CallStep ==
    (CallbackStep /\ cb_log'[Len(cb_log')].outcome = "called") =>
        Playing(cpal_streams, DueClosure.count)

\* C26: the user callback is never invoked with the StreamId of a stream on
\* which play_stream has not been called yet, in any interleaving of the
\* driver's callback thread with a build; in particular not between the
\* build's sys::set_callback and its push of the Paused slot, while the
\* hardware runs for another stream and a user callback is stored.
C26_NoCallbackBeforePlay == [][C26_CallStep]_vars

\* ------------------------------------------------------------------- C27
\* The lock events of two application threads and the driver's callback
\* thread, in every interleaving.
NextLocks ==
    \/ \E t \in Threads, op \in ApiOps \cup { "callback" } :
          \E path \in LockPaths(op) : enter(t, op, path)
    \/ \E t \in Threads : lock(t)
    \/ \E t \in Threads : unlock(t)
    \/ \E t \in Threads : leave(t)

SpecLocks == Init /\ [][NextLocks]_vars

\* Thread t is blocked in lock() on a mutex that thread u holds.
WaitsFor(t, u) ==
    /\ NextEvent(t) # None
    /\ NextEvent(t)[1].ev = "lock"
    /\ NextEvent(t)[1].l \in Held(u)

\* A set of threads each of which waits for a lock held inside the set.
Deadlock ==
    \E S \in (SUBSET Threads) \ { { } } :
        \A t \in S : \E u \in S : WaitsFor(t, u)

\* C27: the three locks are acquired in a consistent order by the driver
\* callback, the builds, play_stream, pause_stream, destroy_stream and run:
\* in no interleaving of application threads with the driver's callback
\* thread is a deadlock reachable (the user callback does not call into the
\* EventLoop).
C27_NoDeadlock == ~Deadlock

\* The driver thread holds asio_streams and waits for callbacks, which an
\* application thread holds inside run, while the other application thread
\* waits for asio_streams.
C27_Witness ==
    \E t, u \in AppThreads :
        /\ t # u
        /\ pc[t].step = "locks" /\ pc[t].op = "run"
        /\ WaitsFor("driver", t)
        /\ WaitsFor(u, "driver")

\* ------------------------------------------------------------------- C28
\* Output streams at full scale: the user callbacks write 1 or the largest
\* 16-bit sample, into little-endian integer hardware streams of both
\* widths, in a build with and without overflow checks.
PeakConsts == { 1, I16MAX }

InitPeak == InitWith({ "ASIOSTInt16LSB", "ASIOSTInt32LSB" }, BOOLEAN)

NextPeak ==
    \/ \E format \in SwapFormats, env \in SwapEnvs :
          stream_count < SwapStreams /\ build_output_stream(format, env)
    \/ \E id \in 0 .. (SwapStreams - 1) : play_stream(id)
    \/ run
    \/ \E raw \in RawIn : buffer_switch(raw)
    \/ \E v \in PeakConsts : callback(v)

SpecPeak == InitPeak /\ [][NextPeak]_vars

\* C28: additive mixing stays inside the hardware sample range.  When two
\* Playing output streams have accumulated into the same integer hardware
\* half-buffer, the accumulation did not overflow and every sample of the
\* half-buffer is the sum of the two converted samples, unwrapped, for all
\* logical sample values, both streams writing the maximum included.
C28_MixWithoutOverflow ==
    ( /\ Len(cb_log) = 2
      /\ \A k \in 1 .. 2 :
            /\ cb_log[k].outcome = "called"
            /\ cb_log[k].dir = "output"
            /\ cb_log[k].data # << >> ) =>
        LET a == to_hardware(stream_type, cb_log[1].data[1])
            b == to_hardware(stream_type, cb_log[2].data[1])
        IN /\ ~panicked
           /\ ~AddOverflows(AsioBits(stream_type), a, b)
           /\ \A i \in DOMAIN asio_streams.output[1].buffer_infos :
                  \A f \in 1 .. asio_streams.output[1].buffer_size :
                      asio_streams.output[1].buffer_infos[i][swap.index][f] =
                          HardwareSum(stream_type, a, b)

====
